---- MODULE Spec2Model ----
(***************************************************************************)
(* Model of turtle_based_data_entry (src/project.py, Module 5): the        *)
(* recurring-questionnaire scheduler and its SQLite response store.        *)
(*                                                                         *)
(* Durable state: the tables survey_responses and question_intervals of    *)
(* survey_data.db and the export file all_user_data.txt.  Process state:   *)
(* the locals of run_survey and the position of the running process.       *)
(* Dates are kept as the fields <<year, month, day>> of the text           *)
(* "YYYY-MM-DD"; strptime validates them and day differences are taken on  *)
(* proleptic Gregorian ordinals, as datetime does.                         *)
(***************************************************************************)
EXTENDS Integers, Sequences, FiniteSets, TLC

VARIABLES
    db_exists,              \* survey_data.db is on disk
    survey_responses,       \* committed rows of table survey_responses, by rowid
    question_intervals,     \* committed rows of table question_intervals
    all_user_data,          \* the export file all_user_data.txt
    pc,                     \* position of the process in turtle_based_data_entry
    status,                 \* "running", or how the process ended
    user_id,                \* run_survey local
    survey_date,            \* run_survey local (normalised text fields)
    qidx,                   \* index of the catalog question the loop is at
    responses,              \* run_survey local dict question -> answer index
    any_questions_available,\* run_survey local
    response,               \* the answer to the reset prompt, until run_survey is entered
    txn,                    \* rows inserted on conn and not yet committed
    runs,                   \* number of processes started so far
    due_log,                \* history: questions is_question_due returned True for in this run
    snap,                   \* history: the durable state when run_survey started
    completed               \* history: (identity, date) of earlier runs that finished the question loop

vars == <<db_exists, survey_responses, question_intervals, all_user_data, pc,
          status, user_id, survey_date, qidx, responses,
          any_questions_available, response, txn, runs, due_log, snap,
          completed>>

durable == <<db_exists, survey_responses, question_intervals, all_user_data>>
locals == <<user_id, survey_date, qidx, responses, any_questions_available>>

(***************************************************************************)
(* Bounds                                                                  *)
(***************************************************************************)
MaxRuns == 2

\* Names the operator may type at the name prompt.
Names == {"Nayeon", "Mina"}

\* Dates the operator may type at the date prompt (year, month, day fields).
DateFields == { <<2024, 1, 1>>, <<2024, 1, 5>>, <<2024, 1, 8>>, <<2024, 4, 1>>,
                <<2024, 2, 30>>, <<2024, 13, 1>> }

\* Texts the operator may type at the answer prompt.
AnswerTexts == {"", "x", "0", "7"}

(***************************************************************************)
(* Values                                                                  *)
(***************************************************************************)
None == "None"
NoDate == <<0, 0, 0>>
NoFile == [exists |-> FALSE, lines |-> <<>>]

\* questions_with_scales: question text, interval in days, number of options.
questions_with_scales ==
    << [question |-> "Weekly: How many hours did you spend alone last week?",
        interval |-> 7, options |-> 5],
       [question |-> "Weekly: How would you rate your physical health?",
        interval |-> 7, options |-> 5],
       [question |-> "Weekly: How would you rate your mental health?",
        interval |-> 7, options |-> 5],
       [question |-> "Quarterly: How often have you had face-to-face conversations in the past three months?",
        interval |-> 91, options |-> 7],
       [question |-> "Quarterly: How often have you volunteered in the past three months?",
        interval |-> 91, options |-> 7] >>

NQ == Len(questions_with_scales)
Questions == { questions_with_scales[i].question : i \in 1..NQ }
Config(q) == CHOOSE c \in { questions_with_scales[i] : i \in 1..NQ } : c.question = q

\* anonymize_name: the SHA-256 hex digest of the name, tabulated for Names.
anonymize_name(name) ==
    CASE name = "Nayeon" -> "sha256:Nayeon"
      [] name = "Mina"   -> "sha256:Mina"

(***************************************************************************)
(* datetime                                                                *)
(***************************************************************************)
IsLeap(y) == (y % 4 = 0) /\ ((y % 100 # 0) \/ (y % 400 = 0))

DaysInMonth(y, m) ==
    CASE m \in {1, 3, 5, 7, 8, 10, 12} -> 31
      [] m \in {4, 6, 9, 11} -> 30
      [] m = 2 -> IF IsLeap(y) THEN 29 ELSE 28

RECURSIVE DaysBeforeMonth(_, _)
DaysBeforeMonth(y, m) ==
    IF m = 1 THEN 0 ELSE DaysBeforeMonth(y, m - 1) + DaysInMonth(y, m - 1)

DaysBeforeYear(y) ==
    (y - 1) * 365 + ((y - 1) \div 4) - ((y - 1) \div 100) + ((y - 1) \div 400)

\* datetime.toordinal of a valid date
ToOrdinal(dt) == DaysBeforeYear(dt[1]) + DaysBeforeMonth(dt[1], dt[2]) + dt[3]

\* What screen.textinput can return at the date prompt: None (dialog
\* cancelled), a text that does not match "%Y-%m-%d", or a matching text with
\* its fields written with or without leading zeros.
DateInputs ==
    { [kind |-> "none", fields |-> NoDate, padded |-> FALSE],
      [kind |-> "garbage", fields |-> NoDate, padded |-> FALSE] }
    \cup [kind : {"text"}, fields : DateFields, padded : BOOLEAN]

\* datetime.strptime(text, "%Y-%m-%d"): the datetime, or ValueError
ValueError == <<-1, -1, -1>>
strptime(t) ==
    IF /\ t[1] \in 1..9999
       /\ t[2] \in 1..12
       /\ t[3] \in 1..DaysInMonth(t[1], t[2])
    THEN t ELSE ValueError

\* datetime.strftime("%Y-%m-%d"): the zero-padded text, kept as its fields
strftime(dt) == <<dt[1], dt[2], dt[3]>>

\* (a - b).days
DaysBetween(a, b) == ToOrdinal(a) - ToOrdinal(b)

(***************************************************************************)
(* Answer texts: str.isdigit and int                                       *)
(***************************************************************************)
AnswerInputs == {None} \cup AnswerTexts
Truthy(s) == s # None /\ s # ""
isdigit(s) == s \in {"0", "1", "2", "3", "4", "5", "6", "7", "8", "9"}
int(s) ==
    CASE s = "0" -> 0 [] s = "1" -> 1 [] s = "2" -> 2 [] s = "3" -> 3
      [] s = "4" -> 4 [] s = "5" -> 5 [] s = "6" -> 6 [] s = "7" -> 7
      [] s = "8" -> 8 [] s = "9" -> 9

\* the condition of the answer loop with a range no number is in
ValidAnswer_never(s, config) ==
    Truthy(s) /\ isdigit(s) /\ config.options <= int(s) /\ int(s) < 0

\* the condition of the answer loop without the range test
ValidAnswer_norange(s, config) == Truthy(s) /\ isdigit(s)

\* the condition of the answer loop (line 738)
ValidAnswer(s, config) ==
    Truthy(s) /\ isdigit(s) /\ 0 <= int(s) /\ int(s) < config.options

(***************************************************************************)
(* The store                                                               *)
(***************************************************************************)
\* SELECT last_answered_date FROM question_intervals WHERE user_id = ? AND question = ?
SelectLastAnswered(rows, uid, q) ==
    { r \in rows : r.user_id = uid /\ r.question = q }

\* is_question_due that never finds the stored row
is_question_due_norow(rows, uid, q, interval_days, sdate) ==
    [due |-> TRUE, days_remaining |-> 0]

\* is_question_due that treats a missing row as not due
is_question_due_needsrow(rows, uid, q, interval_days, sdate) ==
    LET result == SelectLastAnswered(rows, uid, q) IN
    IF result # {}
    THEN LET days_remaining ==
                 interval_days
                 - DaysBetween(strptime(sdate),
                               strptime((CHOOSE r \in result : TRUE).last_answered_date))
         IN IF days_remaining > 0
            THEN [due |-> FALSE, days_remaining |-> days_remaining]
            ELSE [due |-> TRUE, days_remaining |-> 0]
    ELSE [due |-> FALSE, days_remaining |-> interval_days]

\* is_question_due on the distance between the dates, whatever their order
is_question_due_abs(rows, uid, q, interval_days, sdate) ==
    LET result == SelectLastAnswered(rows, uid, q) IN
    IF result # {}
    THEN LET d == DaysBetween(strptime(sdate),
                              strptime((CHOOSE r \in result : TRUE).last_answered_date))
             days_remaining == interval_days - (IF d < 0 THEN -d ELSE d)
         IN IF days_remaining > 0
            THEN [due |-> FALSE, days_remaining |-> days_remaining]
            ELSE [due |-> TRUE, days_remaining |-> 0]
    ELSE [due |-> TRUE, days_remaining |-> 0]

\* is_question_due with the test written days_remaining >= 0
is_question_due_ge(rows, uid, q, interval_days, sdate) ==
    LET result == SelectLastAnswered(rows, uid, q) IN
    IF result # {}
    THEN LET days_remaining ==
                 interval_days
                 - DaysBetween(strptime(sdate),
                               strptime((CHOOSE r \in result : TRUE).last_answered_date))
         IN IF days_remaining >= 0
            THEN [due |-> FALSE, days_remaining |-> days_remaining]
            ELSE [due |-> TRUE, days_remaining |-> 0]
    ELSE [due |-> TRUE, days_remaining |-> 0]

\* is_question_due: the returned truth value, with days_remaining as printed
is_question_due(rows, uid, q, interval_days, sdate) ==
    LET result == SelectLastAnswered(rows, uid, q) IN
    IF result # {}
    THEN LET last_date == strptime((CHOOSE r \in result : TRUE).last_answered_date)
             survey_date_obj == strptime(sdate)
             days_since_last == DaysBetween(survey_date_obj, last_date)
             days_remaining == interval_days - days_since_last
         IN IF days_remaining > 0
            THEN [due |-> FALSE, days_remaining |-> days_remaining]
            ELSE [due |-> TRUE, days_remaining |-> 0]
    ELSE [due |-> TRUE, days_remaining |-> 0]

\* update_question_date replacing on the question alone, whoever answered it
update_question_date_anyuser(rows, uid, q, interval_days, sdate) ==
    { r \in rows : r.question # q }
    \cup { [user_id |-> uid, question |-> q,
            last_answered_date |-> sdate, interval_days |-> interval_days] }

\* update_question_date that does not store the date
update_question_date_skip(rows, uid, q, interval_days, sdate) == rows

\* update_question_date as INSERT OR IGNORE: an existing row stays as it is
update_question_date_ignore(rows, uid, q, interval_days, sdate) ==
    IF \E r \in rows : r.user_id = uid /\ r.question = q
    THEN rows
    ELSE rows \cup { [user_id |-> uid, question |-> q,
                      last_answered_date |-> sdate,
                      interval_days |-> interval_days] }

\* update_question_date as a plain INSERT that keeps the old row
update_question_date_insert(rows, uid, q, interval_days, sdate) ==
    rows \cup { [user_id |-> uid, question |-> q,
                 last_answered_date |-> sdate, interval_days |-> interval_days] }

\* update_question_date: INSERT OR REPLACE on the key (user_id, question), committed
update_question_date(rows, uid, q, interval_days, sdate) ==
    { r \in rows : ~(r.user_id = uid /\ r.question = q) }
    \cup { [user_id |-> uid, question |-> q,
            last_answered_date |-> sdate, interval_days |-> interval_days] }

\* the line export_all_responses writes for one row
ExportLine(row) == <<row.user_id, row.survey_date, row.question, row.response>>

\* an export that writes one line per identity and question, the latest
export_all_responses_merged(rows) ==
    LET Latest(r) == ~ \E j \in 1..Len(rows) :
                         /\ rows[j].id > r.id
                         /\ rows[j].user_id = r.user_id
                         /\ rows[j].question = r.question
        kept == SelectSeq(rows, Latest)
    IN [exists |-> TRUE, lines |-> [i \in 1..Len(kept) |-> ExportLine(kept[i])]]

\* export_all_responses: the file rewritten from SELECT * FROM survey_responses
export_all_responses(rows) ==
    [exists |-> TRUE, lines |-> [i \in 1..Len(rows) |-> ExportLine(rows[i])]]

\* responses[question] = value on a dict that keeps insertion order
DictSet_front(d, k, v) ==
    IF \E i \in 1..Len(d) : d[i].question = k
    THEN [i \in 1..Len(d) |-> IF d[i].question = k
                              THEN [question |-> k, response |-> v] ELSE d[i]]
    ELSE <<[question |-> k, response |-> v]>> \o d

DictSet(d, k, v) ==
    IF \E i \in 1..Len(d) : d[i].question = k
    THEN [i \in 1..Len(d) |-> IF d[i].question = k
                              THEN [question |-> k, response |-> v] ELSE d[i]]
    ELSE Append(d, [question |-> k, response |-> v])

Snapshot == [survey_responses |-> survey_responses,
             question_intervals |-> question_intervals,
             all_user_data |-> all_user_data]

(***************************************************************************)
(* Initial state: nothing on disk, the first process at the reset prompt.  *)
(***************************************************************************)
EmptyLocals ==
    /\ user_id' = None
    /\ survey_date' = NoDate
    /\ qidx' = 1
    /\ responses' = <<>>
    /\ any_questions_available' = FALSE

Init ==
    /\ db_exists = FALSE
    /\ survey_responses = <<>>
    /\ question_intervals = {}
    /\ all_user_data = NoFile
    /\ pc = "reset_prompt"
    /\ status = "running"
    /\ user_id = None
    /\ survey_date = NoDate
    /\ qidx = 1
    /\ responses = <<>>
    /\ any_questions_available = FALSE
    /\ response = None
    /\ txn = <<>>
    /\ runs = 1
    /\ due_log = {}
    /\ snap = [survey_responses |-> <<>>, question_intervals |-> {},
               all_user_data |-> NoFile]
    /\ completed = {}

(***************************************************************************)
(* turtle_based_data_entry, lines 775-778: the reset prompt and            *)
(* reset_survey_data.  Each os.remove may fail; the error is printed and   *)
(* the function goes on.  response is not read after line 777 and is kept  *)
(* only until run_survey is entered.                                       *)
(***************************************************************************)
ResetAnswers == {"yes", "YES", "no", ""}
lower(s) == IF s = "YES" THEN "yes" ELSE s

reset_survey_data(rm_txt_ok, rm_db_ok) ==
    /\ all_user_data' = IF all_user_data.exists /\ rm_txt_ok
                        THEN NoFile ELSE all_user_data
    /\ IF db_exists /\ rm_db_ok
       THEN /\ db_exists' = FALSE
            /\ survey_responses' = <<>>
            /\ question_intervals' = {}
            /\ completed' = {}
       ELSE UNCHANGED <<db_exists, survey_responses, question_intervals, completed>>

\* the reset prompt resetting on every answer but "no"
ResetPrompt_unless_no ==
    /\ status = "running"
    /\ pc = "reset_prompt"
    /\ \E typed \in ResetAnswers, rm_txt_ok \in BOOLEAN, rm_db_ok \in BOOLEAN :
          /\ response' = typed
          /\ IF lower(typed) # "no"
             THEN reset_survey_data(rm_txt_ok, rm_db_ok)
             ELSE UNCHANGED <<durable, completed>>
    /\ pc' = "run_survey"
    /\ UNCHANGED <<status, locals, txn, runs, due_log, snap>>

ResetPrompt ==
    /\ status = "running"
    /\ pc = "reset_prompt"
    /\ \E typed \in ResetAnswers, rm_txt_ok \in BOOLEAN, rm_db_ok \in BOOLEAN :
          /\ response' = typed
          /\ IF lower(typed) = "yes"
             THEN reset_survey_data(rm_txt_ok, rm_db_ok)
             ELSE UNCHANGED <<durable, completed>>
    /\ pc' = "run_survey"
    /\ UNCHANGED <<status, locals, txn, runs, due_log, snap>>

(***************************************************************************)
(* run_survey                                                              *)
(***************************************************************************)
\* lines 614-623: the screen is set up and setup_database creates the file
\* and the two tables when they are missing
setup_database ==
    /\ status = "running"
    /\ pc = "run_survey"
    /\ db_exists' = TRUE
    /\ snap' = Snapshot
    /\ response' = None
    /\ pc' = "name_prompt"
    /\ UNCHANGED <<survey_responses, question_intervals, all_user_data, status,
                   locals, txn, runs, due_log, completed>>

\* lines 625-631: what the name prompt does with the text it gets
NameOutcome_reprompt(user_name) ==
    IF ~Truthy(user_name)
    THEN [status |-> "running", pc |-> "name_prompt", user_id |-> user_id]
    ELSE [status |-> "running", pc |-> "date_prompt",
          user_id |-> anonymize_name(user_name)]

NameOutcome(user_name) ==
    IF ~Truthy(user_name)
    THEN [status |-> "no_name", pc |-> pc, user_id |-> user_id]
    ELSE [status |-> "running", pc |-> "date_prompt",
          user_id |-> anonymize_name(user_name)]

NamePrompt ==
    /\ status = "running"
    /\ pc = "name_prompt"
    /\ \E user_name \in Names \cup {None, ""} :
          LET o == NameOutcome(user_name) IN
          /\ status' = o.status
          /\ pc' = o.pc
          /\ user_id' = o.user_id
    /\ UNCHANGED <<durable, survey_date, qidx, responses,
                   any_questions_available, txn, runs, response, due_log, snap,
                   completed>>

\* lines 633-643: one pass of the date loop, accepting any text of the
\* right shape without the calendar check
DateOutcome_nocheck(inp) ==
    CASE inp.kind = "none" ->
            [status |-> "error", pc |-> pc, survey_date |-> survey_date]
      [] inp.kind = "garbage" ->
            [status |-> "running", pc |-> pc, survey_date |-> survey_date]
      [] inp.kind = "text" ->
            [status |-> "running", pc |-> "due_check",
             survey_date |-> strftime(inp.fields)]

\* lines 633-643: one pass of the date loop.  strptime(None) raises
\* TypeError, which the loop does not catch.
DateOutcome(inp) ==
    CASE inp.kind = "none" ->
            [status |-> "error", pc |-> pc, survey_date |-> survey_date]
      [] inp.kind = "garbage" ->
            [status |-> "running", pc |-> pc, survey_date |-> survey_date]
      [] inp.kind = "text" ->
            LET survey_date_obj == strptime(inp.fields) IN
            IF /\ survey_date_obj # ValueError
               /\ 1 <= survey_date_obj[2] /\ survey_date_obj[2] <= 12
               /\ 1 <= survey_date_obj[3] /\ survey_date_obj[3] <= 31
            THEN [status |-> "running", pc |-> "due_check",
                  survey_date |-> strftime(survey_date_obj)]
            ELSE [status |-> "running", pc |-> pc, survey_date |-> survey_date]

DatePrompt ==
    /\ status = "running"
    /\ pc = "date_prompt"
    /\ \E inp \in DateInputs :
          LET o == DateOutcome(inp) IN
          /\ status' = o.status
          /\ pc' = o.pc
          /\ survey_date' = o.survey_date
    /\ UNCHANGED <<durable, user_id, qidx, responses, any_questions_available,
                   txn, runs, response, due_log, snap, completed>>

\* lines 711-715: the head of the question loop for the question at qidx
DueCheck ==
    /\ status = "running"
    /\ pc = "due_check"
    /\ qidx <= NQ
    /\ LET config == questions_with_scales[qidx]
           r == is_question_due(question_intervals, user_id, config.question,
                                config.interval, survey_date)
       IN IF ~r.due
          THEN /\ qidx' = qidx + 1
               /\ UNCHANGED <<pc, any_questions_available, due_log>>
          ELSE /\ any_questions_available' = TRUE
               /\ due_log' = due_log \cup {config.question}
               /\ pc' = "answer_prompt"
               /\ UNCHANGED qidx
    /\ UNCHANGED <<durable, status, user_id, survey_date, responses, txn, runs, response,
                   snap, completed>>

\* lines 730-744: what one pass of the answer loop does with the text it gets
AnswerOutcome(user_input) ==
    LET config == questions_with_scales[qidx] IN
    IF ValidAnswer(user_input, config)
    THEN [responses |-> DictSet(responses, config.question, int(user_input)),
          question_intervals |->
              update_question_date(question_intervals, user_id, config.question,
                                   config.interval, survey_date),
          qidx |-> qidx + 1,
          pc |-> "due_check"]
    ELSE [responses |-> responses, question_intervals |-> question_intervals,
          qidx |-> qidx, pc |-> pc]

AnswerPrompt ==
    /\ status = "running"
    /\ pc = "answer_prompt"
    /\ \E user_input \in AnswerInputs :
          LET o == AnswerOutcome(user_input) IN
          /\ responses' = o.responses
          /\ question_intervals' = o.question_intervals
          /\ qidx' = o.qidx
          /\ pc' = o.pc
    /\ UNCHANGED <<db_exists, survey_responses, all_user_data, status, user_id,
                   survey_date, any_questions_available, txn, runs, response,
                   due_log, snap, completed>>

\* the check after the loop, exporting before it returns
CheckAvailable_exports ==
    /\ status = "running"
    /\ pc = "due_check"
    /\ qidx > NQ
    /\ IF ~any_questions_available
       THEN /\ status' = "NoQuestionsDue"
            /\ all_user_data' = export_all_responses(survey_responses)
            /\ UNCHANGED pc
       ELSE /\ pc' = "save"
            /\ UNCHANGED <<status, all_user_data>>
    /\ UNCHANGED <<db_exists, survey_responses, question_intervals, locals,
                   txn, runs, response, due_log, snap, completed>>

\* lines 746-752: after the loop
CheckAvailable ==
    /\ status = "running"
    /\ pc = "due_check"
    /\ qidx > NQ
    /\ IF ~any_questions_available
       THEN /\ status' = "NoQuestionsDue"
            /\ UNCHANGED pc
       ELSE /\ pc' = "save"
            /\ UNCHANGED status
    /\ UNCHANGED <<durable, locals, txn, runs, response, due_log, snap, completed>>

\* lines 755-759: one INSERT of the save loop, inside the open transaction
InsertRow(uid, sdate, entry) ==
    [id |-> Len(survey_responses) + Len(txn) + 1, user_id |-> uid,
     survey_date |-> sdate, question |-> entry.question,
     response |-> entry.response]

\* the save loop on a connection that commits every INSERT at once
SaveInsert_autocommit ==
    /\ status = "running"
    /\ pc = "save"
    /\ Len(txn) < Len(responses)
    /\ txn' = Append(txn, InsertRow(user_id, survey_date, responses[Len(txn) + 1]))
    /\ survey_responses' =
          Append(survey_responses,
                 InsertRow(user_id, survey_date, responses[Len(txn) + 1]))
    /\ UNCHANGED <<db_exists, question_intervals, all_user_data, pc, status,
                   locals, runs, response, due_log, snap, completed>>

SaveInsert ==
    /\ status = "running"
    /\ pc = "save"
    /\ Len(txn) < Len(responses)
    /\ txn' = Append(txn, InsertRow(user_id, survey_date, responses[Len(txn) + 1]))
    /\ UNCHANGED <<durable, pc, status, locals, runs, response, due_log, snap, completed>>

\* a commit that replaces the table by the new rows
Commit_overwrite(table, rows) == rows

\* line 761: conn.commit()
Commit(table, rows) == table \o rows

SaveCommit ==
    /\ status = "running"
    /\ pc = "save"
    /\ Len(txn) = Len(responses)
    /\ survey_responses' = Commit(survey_responses, txn)
    /\ txn' = <<>>
    /\ pc' = "export"
    /\ UNCHANGED <<db_exists, question_intervals, all_user_data, status, locals,
                   runs, response, due_log, snap, completed>>

\* line 764
Export ==
    /\ status = "running"
    /\ pc = "export"
    /\ all_user_data' = export_all_responses(survey_responses)
    /\ pc' = "thanks"
    /\ UNCHANGED <<db_exists, survey_responses, question_intervals, status,
                   locals, txn, runs, response, due_log, snap, completed>>

\* lines 766-773
Finish ==
    /\ status = "running"
    /\ pc = "thanks"
    /\ status' = "Exported"
    /\ UNCHANGED <<durable, pc, locals, txn, runs, response, due_log, snap, completed>>

(***************************************************************************)
(* Ways a run ends early.  The connection is dropped without a commit, so  *)
(* the open transaction is rolled back.                                    *)
(***************************************************************************)
RunPcs == {"run_survey", "name_prompt", "date_prompt", "due_check",
           "answer_prompt", "save", "export", "thanks"}
PromptPcs == {"name_prompt", "date_prompt", "answer_prompt", "thanks"}

\* lines 784-786: the operator closes the window while it waits for input
WindowClosed ==
    /\ status = "running"
    /\ pc \in PromptPcs
    /\ status' = "window_closed"
    /\ txn' = <<>>
    /\ UNCHANGED <<durable, pc, locals, runs, response, due_log, snap, completed>>

\* lines 787-789: any other exception inside run_survey
UnexpectedError ==
    /\ status = "running"
    /\ pc \in RunPcs
    /\ status' = "error"
    /\ txn' = <<>>
    /\ UNCHANGED <<durable, pc, locals, runs, response, due_log, snap, completed>>

\* the process is killed
Crash ==
    /\ status = "running"
    /\ status' = "crashed"
    /\ txn' = <<>>
    /\ UNCHANGED <<durable, pc, locals, runs, response, due_log, snap, completed>>

\* the program is started again
NewProcess ==
    /\ status # "running"
    /\ runs < MaxRuns
    /\ runs' = runs + 1
    /\ status' = "running"
    /\ pc' = "reset_prompt"
    /\ EmptyLocals
    /\ response' = None
    /\ due_log' = {}
    /\ snap' = Snapshot
    /\ completed' = IF qidx > NQ
                    THEN completed \cup {<<user_id, survey_date>>}
                    ELSE completed
    /\ UNCHANGED <<durable, txn>>

Next ==
    \/ ResetPrompt
    \/ setup_database
    \/ NamePrompt
    \/ DatePrompt
    \/ DueCheck
    \/ AnswerPrompt
    \/ CheckAvailable
    \/ SaveInsert
    \/ SaveCommit
    \/ Export
    \/ Finish
    \/ WindowClosed
    \/ UnexpectedError
    \/ Crash
    \/ NewProcess

Spec == Init /\ [][Next]_vars

(***************************************************************************)
(* The program with an operator who enters a text at every prompt and      *)
(* sooner or later a valid one, and without errors or kills: every         *)
(* statement of run_survey that can run does run.                          *)
(***************************************************************************)
DateEntered == DatePrompt /\ status' = "running"

LiveNext ==
    \/ ResetPrompt
    \/ setup_database
    \/ NamePrompt
    \/ DateEntered
    \/ DueCheck
    \/ AnswerPrompt
    \/ CheckAvailable
    \/ SaveInsert
    \/ SaveCommit
    \/ Export
    \/ Finish
    \/ NewProcess

LiveSpec ==
    /\ Init
    /\ [][LiveNext]_vars
    /\ WF_vars(DateEntered)
    /\ WF_vars(AnswerPrompt)
    /\ WF_vars(DueCheck)
    /\ WF_vars(CheckAvailable)
    /\ WF_vars(SaveInsert)
    /\ WF_vars(SaveCommit)
    /\ WF_vars(Export)
    /\ WF_vars(Finish)

(***************************************************************************)
(* Vocabulary of the properties                                            *)
(***************************************************************************)
Ids == { anonymize_name(n) : n \in Names }
ValidDates == { d \in DateFields : strptime(d) # ValueError }
CheckIntervals == {1, 7, 91}
Terminal == status # "running"
DateAccepted == survey_date # NoDate

HasRecord(uid, sdate, q) ==
    \E i \in 1..Len(survey_responses) :
        /\ survey_responses[i].user_id = uid
        /\ survey_responses[i].survey_date = sdate
        /\ survey_responses[i].question = q

HasRow(uid, q) ==
    \E r \in question_intervals : r.user_id = uid /\ r.question = q

IsPrefix(s, t) == Len(s) <= Len(t) /\ SubSeq(t, 1, Len(s)) = s

Abs(n) == IF n < 0 THEN -n ELSE n

(***************************************************************************)
(* C1  Commit atomicity per question.  In the store a process leaves       *)
(* behind (finished, abandoned, failed or killed), every Schedule State    *)
(* row (identity, question, last-answered d) has a Response Record         *)
(* (identity, d, question, answer).                                        *)
(***************************************************************************)
C1_CommitAtomicity ==
    Terminal =>
        \A r \in question_intervals :
            HasRecord(r.user_id, r.last_answered_date, r.question)

(***************************************************************************)
(* C2  Cancellation.  When the operator abandons the run at the answer     *)
(* prompt after k >= 1 valid answers, the k answered questions have both   *)
(* their Response Record and their Schedule State update in the store, and *)
(* the abandoned question has neither.                                     *)
(***************************************************************************)
C2_Cancellation ==
    (status = "window_closed" /\ pc = "answer_prompt" /\ Len(responses) >= 1) =>
        /\ \A i \in 1..Len(responses) :
              /\ HasRecord(user_id, survey_date, responses[i].question)
              /\ \E r \in question_intervals :
                    /\ r.user_id = user_id
                    /\ r.question = responses[i].question
                    /\ r.last_answered_date = survey_date
        /\ LET q == questions_with_scales[qidx].question IN
              /\ ~ \E i \in Len(snap.survey_responses) + 1 .. Len(survey_responses) :
                     survey_responses[i].question = q
              /\ SelectLastAnswered(question_intervals, user_id, q)
                   = SelectLastAnswered(snap.question_intervals, user_id, q)

(***************************************************************************)
(* C3  Idempotency across runs.  A run whose identity and survey date are  *)
(* those of an earlier run that went through the whole question loop (no   *)
(* reset in between) finds no question due, asks nothing, adds no Response *)
(* Record and can only end in NoQuestionsDue.                              *)
(***************************************************************************)
C3_Idempotent ==
    (DateAccepted /\ <<user_id, survey_date>> \in completed) =>
        /\ due_log = {}
        /\ ~any_questions_available
        /\ pc = "due_check"
        /\ responses = <<>>
        /\ survey_responses = snap.survey_responses
        /\ status \in {"running", "NoQuestionsDue", "error", "crashed"}

C3_Witness ==
    /\ status = "NoQuestionsDue"
    /\ <<user_id, survey_date>> \in completed
    /\ HasRecord(user_id, survey_date, questions_with_scales[1].question)

(***************************************************************************)
(* C4  Recurrence spacing.  Two distinct Response Records of the same      *)
(* identity and question have survey dates at least the question's         *)
(* interval apart.                                                         *)
(***************************************************************************)
C4_Spacing ==
    \A i, j \in 1..Len(survey_responses) :
        (/\ i < j
         /\ survey_responses[i].user_id = survey_responses[j].user_id
         /\ survey_responses[i].question = survey_responses[j].question)
        => Abs(ToOrdinal(survey_responses[j].survey_date)
               - ToOrdinal(survey_responses[i].survey_date))
             >= Config(survey_responses[i].question).interval

C4_Witness ==
    \E i, j \in 1..Len(survey_responses) :
        /\ i < j
        /\ survey_responses[i].user_id = survey_responses[j].user_id
        /\ survey_responses[i].question = survey_responses[j].question
        /\ Config(survey_responses[i].question).interval = 91

(***************************************************************************)
(* C5  Due-check with no prior state.  For every identity and question     *)
(* without a Schedule State row, is_question_due answers Due for every     *)
(* as-of date and every interval.                                          *)
(***************************************************************************)
C5_NoRowIsDue ==
    \A uid \in Ids, q \in Questions :
        ~HasRow(uid, q) =>
            \A d \in ValidDates, iv \in CheckIntervals :
                is_question_due(question_intervals, uid, q, iv, d).due

C5_Witness ==
    /\ pc = "answer_prompt"
    /\ ~HasRow(user_id, questions_with_scales[qidx].question)
    /\ question_intervals # {}

(***************************************************************************)
(* C6  Due-check threshold.  With a Schedule State row and elapsed =       *)
(* as-of date - last-answered date in days, is_question_due answers Due    *)
(* exactly when elapsed >= interval, and otherwise NotDue with             *)
(* days_remaining = interval - elapsed > 0.  Interval 7, last answered     *)
(* 2024-01-01: as-of 2024-01-05 is NotDue with 3 days remaining, as-of     *)
(* 2024-01-08 is Due.                                                      *)
(***************************************************************************)
C6_Threshold ==
    \A r \in question_intervals :
        /\ \A d \in ValidDates, iv \in CheckIntervals :
              LET elapsed == ToOrdinal(d) - ToOrdinal(r.last_answered_date)
                  res == is_question_due(question_intervals, r.user_id,
                                         r.question, iv, d)
              IN /\ res.due <=> (elapsed >= iv)
                 /\ ~res.due => /\ res.days_remaining = iv - elapsed
                                /\ res.days_remaining > 0
        /\ r.last_answered_date = <<2024, 1, 1>> =>
              /\ is_question_due(question_intervals, r.user_id, r.question,
                                 7, <<2024, 1, 5>>)
                   = [due |-> FALSE, days_remaining |-> 3]
              /\ is_question_due(question_intervals, r.user_id, r.question,
                                 7, <<2024, 1, 8>>).due

C6_Witness ==
    /\ pc = "due_check"
    /\ survey_date = <<2024, 1, 5>>
    /\ qidx = 2
    /\ ~any_questions_available
    /\ \E r \in question_intervals :
          /\ r.user_id = user_id
          /\ r.question = questions_with_scales[1].question
          /\ r.last_answered_date = <<2024, 1, 1>>

(***************************************************************************)
(* C7  Single row per key.  Schedule State holds at most one row for each  *)
(* (identity, question); a new answer replaces the row.                    *)
(***************************************************************************)
C7_SingleRow ==
    \A r1, r2 \in question_intervals :
        (r1.user_id = r2.user_id /\ r1.question = r2.question) => r1 = r2

C7_Witness ==
    \E r \in question_intervals :
        /\ HasRecord(r.user_id, r.last_answered_date, r.question)
        /\ \E i \in 1..Len(survey_responses) :
              /\ survey_responses[i].user_id = r.user_id
              /\ survey_responses[i].question = r.question
              /\ survey_responses[i].survey_date # r.last_answered_date

(***************************************************************************)
(* C8  Every Response Record that enters the store carries the identity    *)
(* and survey date of the run that writes it, a catalog question for which *)
(* is_question_due answered Due in that run, and an answer index in        *)
(* [0, number of options - 1].                                             *)
(***************************************************************************)
C8_OnlyValidated ==
    [][ \A i \in 1..Len(survey_responses') :
          (i > Len(survey_responses) \/ survey_responses'[i] # survey_responses[i])
          => LET row == survey_responses'[i] IN
             /\ row.question \in Questions
             /\ row.question \in due_log
             /\ row.user_id = user_id
             /\ row.survey_date = survey_date
             /\ row.response \in 0..(Config(row.question).options - 1) ]_vars

C8_Witness ==
    /\ status = "Exported"
    /\ Len(survey_responses) > Len(snap.survey_responses)
    /\ Len(responses) < NQ

(***************************************************************************)
(* C9  Append-only history.  Every step other than the reset prompt keeps  *)
(* the Response Records it found as a prefix of the Response Records it    *)
(* leaves.                                                                 *)
(***************************************************************************)
C9_AppendOnly ==
    [][ pc # "reset_prompt" => IsPrefix(survey_responses, survey_responses') ]_vars

C9_Witness ==
    /\ Len(snap.survey_responses) > 0
    /\ Len(survey_responses) > Len(snap.survey_responses)

(***************************************************************************)
(* C10  A run in which no catalog question is due writes nothing.  When    *)
(* every question is NotDue for the identity at the accepted survey date,  *)
(* the run asks nothing, can only end in NoQuestionsDue, and the Response  *)
(* Records, the Schedule State and the export file stay as run_survey      *)
(* found them; a run that ended in NoQuestionsDue left all three as it     *)
(* found them.                                                             *)
(***************************************************************************)
NothingDueAtStart ==
    \A i \in 1..NQ :
        ~is_question_due(snap.question_intervals, user_id,
                         questions_with_scales[i].question,
                         questions_with_scales[i].interval, survey_date).due

C10_NoQuestionsWritesNothing ==
    /\ (DateAccepted /\ NothingDueAtStart) =>
          /\ pc = "due_check"
          /\ ~any_questions_available
          /\ status \in {"running", "NoQuestionsDue", "error", "crashed"}
          /\ Snapshot = snap
    /\ status = "NoQuestionsDue" => Snapshot = snap

C10_Witness ==
    /\ status = "NoQuestionsDue"
    /\ survey_responses # <<>>
    /\ ~all_user_data.exists

(***************************************************************************)
(* C11  History export.  Once export_all_responses has run, the file holds *)
(* exactly one line per stored Response Record, in insertion order, each   *)
(* line carrying identity, survey date, question text and answer index in  *)
(* that order; two records of one identity for one question on different   *)
(* dates are two lines, in commit order.                                   *)
(***************************************************************************)
C11_ExportLines ==
    pc = "thanks" =>
        /\ all_user_data.exists
        /\ Len(all_user_data.lines) = Len(survey_responses)
        /\ \A i \in 1..Len(survey_responses) :
              all_user_data.lines[i] =
                  << survey_responses[i].user_id, survey_responses[i].survey_date,
                     survey_responses[i].question, survey_responses[i].response >>
        /\ \A i, j \in 1..Len(survey_responses) :
              i < j => survey_responses[i].id < survey_responses[j].id

C11_Witness ==
    /\ pc = "thanks"
    /\ \E i, j \in 1..Len(all_user_data.lines) :
          /\ i < j
          /\ all_user_data.lines[i][1] = all_user_data.lines[j][1]
          /\ all_user_data.lines[i][3] = all_user_data.lines[j][3]
          /\ all_user_data.lines[i][2] = <<2024, 1, 1>>
          /\ all_user_data.lines[j][2] = <<2024, 1, 8>>

(***************************************************************************)
(* C12  Reset leaves no residual state.  After the operator confirmed the  *)
(* reset, both relations are empty and the due-check answers Due for every *)
(* identity and question that had a row before the reset, at any date.     *)
(***************************************************************************)
C12_ResetLeavesNothing ==
    (pc = "run_survey" /\ lower(response) = "yes") =>
        /\ survey_responses = <<>>
        /\ question_intervals = {}
        /\ \A r \in snap.question_intervals, d \in ValidDates :
              is_question_due(question_intervals, r.user_id, r.question,
                              r.interval_days, d).due

(***************************************************************************)
(* C13  Input validation errors are never fatal.  A malformed survey date, *)
(* an empty, non-numeric or out-of-range answer and an empty name each     *)
(* leave the run at the same prompt, running, and write nothing.           *)
(***************************************************************************)
MalformedDate(inp) ==
    \/ inp.kind = "garbage"
    \/ /\ inp.kind = "text"
       /\ \/ inp.fields[2] \notin 1..12
          \/ inp.fields[3] \notin 1..31
          \/ (inp.fields[2] = 2 /\ inp.fields[3] > 29)

InvalidAnswer(inp) ==
    \/ inp = ""
    \/ inp \notin {"0", "1", "2", "3", "4", "5", "6", "7", "8", "9"}
    \/ int(inp) > questions_with_scales[qidx].options - 1

DateAndAnswerReprompt ==
    /\ (status = "running" /\ pc = "date_prompt") =>
          \A inp \in DateInputs :
              MalformedDate(inp) =>
                  DateOutcome(inp) = [status |-> "running", pc |-> "date_prompt",
                                      survey_date |-> survey_date]
    /\ (status = "running" /\ pc = "answer_prompt") =>
          \A inp \in AnswerTexts :
              InvalidAnswer(inp) =>
                  AnswerOutcome(inp) = [responses |-> responses,
                                        question_intervals |-> question_intervals,
                                        qidx |-> qidx, pc |-> "answer_prompt"]

PromptStepWritesNothing ==
    (status = "running" /\ pc \in {"name_prompt", "date_prompt"}) =>
        /\ survey_responses' = survey_responses
        /\ question_intervals' = question_intervals
        /\ all_user_data' = all_user_data

C14_StorageErrorsFatal ==
    [][ /\ status = "error" => pc' = "reset_prompt"
        /\ (status = "running" /\ pc = "run_survey"
            /\ lower(response) = "yes" /\ db_exists
            /\ (survey_responses # <<>> \/ question_intervals # {}))
           => pc' # "name_prompt" ]_vars

(***************************************************************************)
(* C16  Converse pairing.  Every Response Record (identity, d, question,   *)
(* answer) has a Schedule State row for (identity, question) whose         *)
(* last-answered date is on or after d.                                    *)
(***************************************************************************)
C16_RecordHasRow ==
    \A i \in 1..Len(survey_responses) :
        \E r \in question_intervals :
            /\ r.user_id = survey_responses[i].user_id
            /\ r.question = survey_responses[i].question
            /\ ToOrdinal(r.last_answered_date)
                 >= ToOrdinal(survey_responses[i].survey_date)

C16_Witness ==
    \E i \in 1..Len(survey_responses) :
        \E r \in question_intervals :
            /\ r.user_id = survey_responses[i].user_id
            /\ r.question = survey_responses[i].question
            /\ ToOrdinal(r.last_answered_date)
                 > ToOrdinal(survey_responses[i].survey_date)
            /\ ~HasRecord(r.user_id, r.last_answered_date, r.question)

(***************************************************************************)
(* C17  Non-monotonic survey date.  With an as-of date earlier than the    *)
(* stored last-answered date the due-check answers NotDue with             *)
(* days_remaining > interval; the run skips the question and leaves the    *)
(* Schedule State row as it was.                                           *)
(***************************************************************************)
C17_EarlierDateSkipped ==
    /\ \A r \in question_intervals, d \in ValidDates, iv \in CheckIntervals :
          ToOrdinal(d) < ToOrdinal(r.last_answered_date) =>
              LET res == is_question_due(question_intervals, r.user_id,
                                         r.question, iv, d)
              IN ~res.due /\ res.days_remaining > iv
    /\ DateAccepted =>
          \A r \in snap.question_intervals :
              (/\ r.user_id = user_id
               /\ ToOrdinal(survey_date) < ToOrdinal(r.last_answered_date))
              => /\ r.question \notin due_log
                 /\ r \in question_intervals
                 /\ \A i \in 1..Len(responses) : responses[i].question # r.question

C17_Witness ==
    /\ DateAccepted
    /\ qidx > NQ
    /\ \E r \in snap.question_intervals :
          /\ r.user_id = user_id
          /\ ToOrdinal(survey_date) < ToOrdinal(r.last_answered_date)

(***************************************************************************)
(* C18  Reset only on explicit confirmation.  A step that removes a        *)
(* Response Record or leaves an (identity, question) without its Schedule  *)
(* State row is the reset prompt answered with yes.                        *)
(***************************************************************************)
RowsDeleted ==
    \/ ~IsPrefix(survey_responses, survey_responses')
    \/ \E r \in question_intervals :
          ~ \E r2 \in question_intervals' :
                r2.user_id = r.user_id /\ r2.question = r.question

C18_ResetOnlyOnYes ==
    [][ RowsDeleted => /\ status = "running"
                       /\ pc = "reset_prompt"
                       /\ response' \in {"yes", "YES"} ]_vars

C18_Witness ==
    /\ pc = "run_survey"
    /\ response \in {"yes", "YES"}
    /\ snap.survey_responses # <<>>
    /\ survey_responses = <<>>

(***************************************************************************)
(* C19  Run ordering.  A run moves name prompt, date prompt, question      *)
(* loop, then either NoQuestionsDue or save, export, Exported, in that     *)
(* order.  The export file is written by the run only in the export step,  *)
(* after the commit of every Response Record and Schedule State update of  *)
(* the run, once, and not in a run that ends in NoQuestionsDue or before   *)
(* the export.                                                             *)
(***************************************************************************)
PcOrder ==
    { <<"reset_prompt", "run_survey">>, <<"run_survey", "name_prompt">>,
      <<"name_prompt", "date_prompt">>, <<"date_prompt", "due_check">>,
      <<"due_check", "answer_prompt">>, <<"answer_prompt", "due_check">>,
      <<"due_check", "save">>, <<"save", "export">>, <<"export", "thanks">> }

RunCommitted ==
    /\ txn = <<>>
    /\ \A i \in 1..Len(responses) :
          /\ \E k \in Len(snap.survey_responses) + 1 .. Len(survey_responses) :
                /\ survey_responses[k].user_id = user_id
                /\ survey_responses[k].survey_date = survey_date
                /\ survey_responses[k].question = responses[i].question
                /\ survey_responses[k].response = responses[i].response
          /\ \E r \in question_intervals :
                /\ r.user_id = user_id
                /\ r.question = responses[i].question
                /\ r.last_answered_date = survey_date

C19_RunOrdering ==
    [][ /\ status = "running" =>
              \/ pc' = pc
              \/ <<pc, pc'>> \in PcOrder
        /\ status # "running" => (status' = "running" /\ pc' = "reset_prompt")
        /\ (status = "running" /\ status' = "NoQuestionsDue") =>
              (pc = "due_check" /\ due_log = {})
        /\ (status = "running" /\ status' = "Exported") => pc = "thanks"
        /\ (all_user_data' # all_user_data /\ pc # "reset_prompt") =>
              (pc = "export" /\ pc' = "thanks" /\ RunCommitted)
        /\ (pc = "export" /\ pc' = "thanks") =>
              (RunCommitted /\ all_user_data'.exists)
        /\ (status' # "running"
            /\ pc' \in {"name_prompt", "date_prompt", "due_check",
                        "answer_prompt", "save", "export"})
           => all_user_data' = snap'.all_user_data ]_vars

C19_Witness ==
    /\ status = "Exported"
    /\ all_user_data # snap.all_user_data
    /\ Len(snap.survey_responses) > 0

(***************************************************************************)
(* C20  Schedule State content.  A row changes only when its identity      *)
(* answers its question, and then holds the survey date supplied to that   *)
(* run; every row holds the catalog interval of its question.              *)
(***************************************************************************)
C20_RowContent ==
    [][ /\ \A r \in question_intervals' :
              r.interval_days = Config(r.question).interval
        /\ IF pc = "answer_prompt" /\ Len(responses') = Len(responses) + 1
           THEN LET q == questions_with_scales[qidx].question IN
                /\ \A r \in question_intervals' :
                      (r.user_id = user_id /\ r.question = q)
                      => r.last_answered_date = survey_date
                /\ \E r \in question_intervals' :
                      r.user_id = user_id /\ r.question = q
                /\ \A r \in question_intervals \cup question_intervals' :
                      (r.user_id # user_id \/ r.question # q)
                      => (r \in question_intervals /\ r \in question_intervals')
           ELSE pc # "reset_prompt" => question_intervals' = question_intervals
      ]_vars

C20_Witness ==
    /\ pc = "due_check"
    /\ qidx = 2
    /\ \E r \in question_intervals, r0 \in snap.question_intervals :
          /\ r.user_id = user_id /\ r0.user_id = user_id
          /\ r.question = questions_with_scales[1].question
          /\ r0.question = r.question
          /\ r.last_answered_date = survey_date
          /\ r0.last_answered_date # survey_date

(***************************************************************************)
(* C21  Declined name aborts cleanly.  With no name (empty text or         *)
(* cancelled dialog) the run ends in the aborted state at the name prompt: *)
(* no identity is derived, no date or question is asked, and the Response  *)
(* Records, the Schedule State and the export file are as run_survey found *)
(* them.                                                                   *)
(***************************************************************************)
C21_DeclinedName ==
    /\ (status = "running" /\ pc = "name_prompt") =>
          \A user_name \in {None, ""} :
              NameOutcome(user_name) = [status |-> "no_name", pc |-> "name_prompt",
                                        user_id |-> None]
    /\ status = "no_name" =>
          /\ pc = "name_prompt"
          /\ user_id = None
          /\ survey_date = NoDate
          /\ qidx = 1
          /\ due_log = {}
          /\ responses = <<>>
          /\ Snapshot = snap

C21_Witness ==
    /\ status = "no_name"
    /\ all_user_data.exists
    /\ question_intervals # {}

(***************************************************************************)
(* C22  Unexpected errors end the run without damaging committed data.     *)
(* After a run ended by an error caught at the flow boundary, every        *)
(* Response Record and every Schedule State row that was in the store when *)
(* run_survey started is still there, unchanged.                           *)
(***************************************************************************)
\* snap is the store run_survey found once setup_database has run
CaughtAtBoundary == status \in {"error", "window_closed"} /\ pc # "run_survey"

C22_ErrorKeepsCommitted ==
    CaughtAtBoundary =>
        /\ IsPrefix(snap.survey_responses, survey_responses)
        /\ snap.question_intervals \subseteq question_intervals

\* C22 as amended: after a run ended by an error caught at the flow
\* boundary, every Response Record that was in the store when run_survey
\* started is still there, unchanged, and so is every Schedule State row
\* except those of the questions this run answered before the error, which
\* now hold this run's survey date.
C22_ErrorKeepsCommittedAmended ==
    CaughtAtBoundary =>
        /\ IsPrefix(snap.survey_responses, survey_responses)
        /\ \A r \in snap.question_intervals :
              \/ r \in question_intervals
              \/ /\ r.user_id = user_id
                 /\ \E i \in 1..Len(responses) : responses[i].question = r.question
                 /\ \E r2 \in question_intervals :
                       /\ r2.user_id = r.user_id
                       /\ r2.question = r.question
                       /\ r2.last_answered_date = survey_date

C22_Witness ==
    /\ status = "error"
    /\ snap.survey_responses # <<>>
    /\ ~(snap.question_intervals \subseteq question_intervals)

DueAtStart ==
    { i \in 1..NQ :
        is_question_due(snap.question_intervals, user_id,
                        questions_with_scales[i].question,
                        questions_with_scales[i].interval, survey_date).due }

Appended ==
    SubSeq(survey_responses, Len(snap.survey_responses) + 1, Len(survey_responses))

C24_CompleteCommit ==
    /\ status = "Exported" =>
          /\ IsPrefix(snap.survey_responses, survey_responses)
          /\ Len(Appended) = Cardinality(DueAtStart)
          /\ Len(Appended) > 0
          /\ \A k \in 1..Len(Appended) :
                \E i \in DueAtStart :
                    /\ Cardinality({ j \in DueAtStart : j <= i }) = k
                    /\ Appended[k].question = questions_with_scales[i].question
                    /\ Appended[k].user_id = user_id
                    /\ Appended[k].survey_date = survey_date
    /\ status = "NoQuestionsDue" =>
          /\ survey_responses = snap.survey_responses
          /\ DueAtStart = {}

C24_Witness ==
    /\ status = "Exported"
    /\ Len(Appended) = 3
    /\ snap.question_intervals # {}

(***************************************************************************)
(* C25  The Response Records of one run become durable together.  At every *)
(* point of a run, and after a crash or an error at any point, the store   *)
(* holds either none of the records of the run or all of them.             *)
(***************************************************************************)
C25_AllOrNothing ==
    pc \notin {"reset_prompt", "run_survey"} =>
        /\ IsPrefix(snap.survey_responses, survey_responses)
        /\ \/ Len(Appended) = 0
           \/ /\ Len(Appended) = Len(responses)
              /\ qidx > NQ
              /\ pc \in {"export", "thanks"}

C25_Witness ==
    /\ status \in {"crashed", "error"}
    /\ pc = "save"
    /\ Len(responses) >= 2
    /\ Len(Appended) = 0
    /\ snap.survey_responses # <<>>

(***************************************************************************)
(* C26  Export artifact tracks the history.  At the end of every run,      *)
(* whatever its outcome, the export file holds exactly one line per        *)
(* Response Record in the store, in the same order; a missing file counts  *)
(* as no lines.                                                            *)
(***************************************************************************)
FileTracksStore ==
    /\ Len(all_user_data.lines) = Len(survey_responses)
    /\ \A i \in 1..Len(survey_responses) :
          all_user_data.lines[i] =
              << survey_responses[i].user_id, survey_responses[i].survey_date,
                 survey_responses[i].question, survey_responses[i].response >>

C26_ArtifactTracksHistory ==
    (status # "running" /\ pc \notin {"reset_prompt", "run_survey"}) =>
        FileTracksStore

\* C26 as amended: at the end of every run that ended in Exported the export
\* file holds exactly one line per Response Record in the store, in the same
\* order; a run that ended before its export step left the file as it
\* found it.
C26_ArtifactAmended ==
    /\ status = "Exported" => (all_user_data.exists /\ FileTracksStore)
    /\ (status # "running"
        /\ pc \in {"name_prompt", "date_prompt", "due_check", "answer_prompt",
                   "save", "export"})
       => all_user_data = snap.all_user_data

C26_Witness ==
    /\ status = "Exported"
    /\ snap.all_user_data.exists
    /\ Len(all_user_data.lines) > Len(snap.all_user_data.lines)

(***************************************************************************)
(* C27  Isolation between identities.  A run for one identity leaves the   *)
(* Schedule State rows of every other identity as it found them, and with  *)
(* them the due-check result for every question and date of that identity. *)
(***************************************************************************)
C27_Isolation ==
    pc \notin {"reset_prompt", "run_survey"} =>
        \A uid \in Ids :
            uid # user_id =>
                /\ { r \in question_intervals : r.user_id = uid }
                     = { r \in snap.question_intervals : r.user_id = uid }
                /\ \A i \in 1..NQ, d \in ValidDates :
                      is_question_due(question_intervals, uid,
                                      questions_with_scales[i].question,
                                      questions_with_scales[i].interval, d)
                      = is_question_due(snap.question_intervals, uid,
                                        questions_with_scales[i].question,
                                        questions_with_scales[i].interval, d)

C27_Witness ==
    /\ user_id # None
    /\ \E r \in question_intervals : r.user_id # user_id
    /\ \E r \in question_intervals :
          r.user_id = user_id /\ r \notin snap.question_intervals

====
